---- MODULE Spec2Model ----
(***************************************************************************)
(* Prize inventory of the gacha machine: the PrizeService operations on    *)
(* the shared prizesStore, the local 'prizes' key, and the Apps Script     *)
(* spreadsheet backend reached through GoogleSheetsService.                *)
(*                                                                         *)
(* A prize is a function from field names to values; an optional field     *)
(* that is undefined in the JavaScript object is absent from the domain.   *)
(***************************************************************************)
EXTENDS Integers, Sequences, FiniteSets, TLC

\* ---------------------------------------------------------------- bounds
\* how many ids nanoid() hands out in a run (so how many addPrize calls)
MaxIds == 1
\* largest stock / totalStock a caller supplies
MaxStock == 1

VARIABLES
    store,          \* prizesStore.prizes: the sequence of prizes
    local,          \* localStorage['prizes'] as StorageService reads it
    sheet,          \* the rows of the spreadsheet below the header row
    dataSource,     \* dataSourceStore._dataSource
    apiUrl,         \* config.googleSheetsApiUrl
    sheetsService,  \* PrizeService.sheetsService is non-null
    calls,          \* remote operations suspended at their await
    nextId,         \* how many ids nanoid() has handed out
    log,            \* completions of the current busy period, oldest first
    currentError    \* errorStore._currentError

vars == <<store, local, sheet, dataSource, apiUrl, sheetsService, calls, nextId, log,
          currentError>>

\* ------------------------------------------------------- values and inputs
IdNames == <<"p1", "p2", "p3", "p4">>
NoSuchId == "non-existent-id"
Names == {"A"}
ImageUrls == {"/a.png"}
Times == {1000}
StockVals == (0 - 1) .. MaxStock
HttpStatuses == {500}

Absent == [kind |-> "absent"]
Stored(prizes) == [kind |-> "json", prizes |-> prizes]

Undefined == [type |-> "undefined"]
Null == [type |-> "null"]
Value(v) == [type |-> "value", val |-> v]

NotFoundError == [name |-> "Error", message |-> "prize not found"]
AdapterError(op) == [name |-> "Error", message |-> op]

Min(a, b) == IF a <= b THEN a ELSE b
Max(a, b) == IF a >= b THEN a ELSE b
SetMax(S) == CHOOSE x \in S : \A y \in S : y <= x

\* p.k ?? d
Get(p, k, d) == IF k \in DOMAIN p THEN p[k] ELSE d
\* {...a, ...b}
Spread(a, b) == [k \in (DOMAIN a) \cup (DOMAIN b) |-> IF k \in DOMAIN b THEN b[k] ELSE a[k]]
\* an object holding the fields of o named in ks
Pick(o, ks) == [k \in (DOMAIN o) \cap ks |-> o[k]]
Empty == [k \in {} |-> 0]

\* currentPrizes.findIndex((p) => p.id === id); 0 stands for -1
FindIndex(prizes, id) ==
    IF \E i \in 1..Len(prizes) : prizes[i]["id"] = id
    THEN CHOOSE i \in 1..Len(prizes) :
            /\ prizes[i]["id"] = id
            /\ \A j \in 1..(i - 1) : prizes[j]["id"] # id
    ELSE 0

\* currentPrizes.filter((p) => p.id !== id)
RECURSIVE FilterOut(_, _)
FilterOut(prizes, id) ==
    IF prizes = <<>> THEN <<>>
    ELSE IF Head(prizes)["id"] = id THEN FilterOut(Tail(prizes), id)
    ELSE <<Head(prizes)>> \o FilterOut(Tail(prizes), id)

\* ------------------------------------------------------------ PrizeService
\* a variant of the getter that looks at the flag alone
isGoogleSheetsEnabledByFlag == dataSource = "sheets"

\* config.isGoogleSheetsEnabled
isGoogleSheetsEnabled == dataSource = "sheets" /\ apiUrl # ""

normalizePrize(prize, now) ==
    LET totalStock == Get(prize, "totalStock", prize["stock"])
        stock == Min(prize["stock"], totalStock)
        createdAt == Get(prize, "createdAt", now)
        order == Get(prize, "order", createdAt)
    IN  Spread(prize, [stock |-> stock, totalStock |-> totalStock,
                       createdAt |-> createdAt, order |-> order])

\* a variant of getNextOrder that counts the prizes
getNextOrderByCount(prizes) == Len(prizes) + 1

getNextOrder(prizes) ==
    IF Len(prizes) = 0 THEN 1
    ELSE SetMax({Get(prizes[i], "order", 0) : i \in 1..Len(prizes)}) + 1

\* a variant of addPrize's record whose totalStock defaults to 0
NewPrizeNoTotal(request, id, now, prizes) ==
    LET totalStock == Get(request, "totalStock", 0)
        normalizedStock == Min(request["stock"], totalStock)
        order == Get(request, "order", getNextOrder(prizes))
    IN  normalizePrize(
            Spread([id |-> id, name |-> request["name"], imageUrl |-> request["imageUrl"],
                    stock |-> normalizedStock, totalStock |-> totalStock,
                    order |-> order, createdAt |-> now],
                   Pick(request, {"description"})),
            now)

\* the prize addPrize builds from its request
NewPrize(request, id, now, prizes) ==
    LET totalStock == Get(request, "totalStock", request["stock"])
        normalizedStock == Min(request["stock"], totalStock)
        order == Get(request, "order", getNextOrder(prizes))
    IN  normalizePrize(
            Spread([id |-> id, name |-> request["name"], imageUrl |-> request["imageUrl"],
                    stock |-> normalizedStock, totalStock |-> totalStock,
                    order |-> order, createdAt |-> now],
                   Pick(request, {"description"})),
            now)

\* the prize updatePrize puts in the place of target
\* a variant of updatePrize's computation that raises totalStock to the
\* requested stock instead of lowering the stock to totalStock
UpdatedPrizeRaisesTotal(target, targetIndex, request, now) ==
    LET requestedStock == Get(request, "stock", target["stock"])
        nextTotalStock == Max(requestedStock,
                              Get(request, "totalStock", Get(target, "totalStock", target["stock"])))
        nextOrder == Get(request, "order", Get(target, "order", targetIndex))
    IN  normalizePrize(
            Spread(Spread(Spread(target, Pick(request, {"name", "imageUrl"})),
                          [stock |-> requestedStock, totalStock |-> nextTotalStock,
                           order |-> nextOrder]),
                   Pick(request, {"description"})),
            now)

UpdatedPrize(target, targetIndex, request, now) ==
    LET nextTotalStock == Get(request, "totalStock", Get(target, "totalStock", target["stock"]))
        requestedStock == Get(request, "stock", target["stock"])
        clampedStock == Min(requestedStock, nextTotalStock)
        nextOrder == Get(request, "order", Get(target, "order", targetIndex))
    IN  normalizePrize(
            Spread(Spread(Spread(target, Pick(request, {"name", "imageUrl"})),
                          [stock |-> clampedStock, totalStock |-> nextTotalStock,
                           order |-> nextOrder]),
                   Pick(request, {"description"})),
            now)

\* a variant of decrementStock's computation without the floor at 0
DecrementedPrizeUnfloored(target) ==
    Spread(target, [stock |-> target["stock"] - 1])

\* the prize decrementStock puts in the place of target
DecrementedPrize(target) ==
    Spread(target, [stock |-> Max(0, target["stock"] - 1)])

\* savePrizes: what storage.set writes under the local key
savePrizes(prizes, now) ==
    Stored([i \in 1..Len(prizes) |-> normalizePrize(prizes[i], now)])

\* -------------------------------------------------- Apps Script (the backend)
\* a response body of the script
ErrorBody(msg) == [error |-> msg]

\* getNextOrder(sheet) of the script
sheetNextOrder(rows) ==
    IF Len(rows) = 0 THEN 1
    ELSE SetMax({rows[i]["order"] : i \in 1..Len(rows)}) + 1

handleAdd(rows, data) ==
    LET totalStock == Get(data, "totalStock", data["stock"])
        newRow == [id |-> data["id"], name |-> data["name"], imageUrl |-> data["imageUrl"],
                   stock |-> data["stock"], totalStock |-> totalStock,
                   description |-> Get(data, "description", ""),
                   order |-> Get(data, "order", sheetNextOrder(rows)),
                   createdAt |-> data["createdAt"]]
        appended == Append(rows, newRow)
    IN  [rows |-> appended,
         body |-> [success |-> TRUE,
                   prize |-> Spread([id |-> data["id"], name |-> data["name"],
                                     imageUrl |-> data["imageUrl"], stock |-> data["stock"],
                                     totalStock |-> totalStock,
                                     order |-> Get(data, "order", sheetNextOrder(appended)),
                                     createdAt |-> data["createdAt"]],
                                    Pick(data, {"description"}))]]

handleUpdate(rows, data) ==
    LET targetRow == FindIndex(rows, data["id"])
    IN  IF targetRow = 0
        THEN [rows |-> rows, body |-> ErrorBody("prize not found")]
        ELSE [rows |-> [rows EXCEPT ![targetRow] =
                            Spread(@, Pick(data, {"name", "imageUrl", "stock", "totalStock",
                                                  "description", "order"}))],
              body |-> [success |-> TRUE]]

handleDelete(rows, id) ==
    LET targetRow == FindIndex(rows, id)
    IN  IF targetRow = 0
        THEN [rows |-> rows, body |-> ErrorBody("prize not found")]
        ELSE [rows |-> SubSeq(rows, 1, targetRow - 1) \o SubSeq(rows, targetRow + 1, Len(rows)),
              body |-> [success |-> TRUE]]

handleDecrement(rows, id) ==
    LET targetRow == FindIndex(rows, id)
    IN  IF targetRow = 0
        THEN [rows |-> rows, body |-> ErrorBody("prize not found")]
        ELSE LET newStock == Max(0, rows[targetRow]["stock"] - 1)
             IN  [rows |-> [rows EXCEPT ![targetRow]["stock"] = newStock],
                  body |-> [success |-> TRUE, newStock |-> newStock]]

doPost(rows, request) ==
    CASE request["action"] = "add" -> handleAdd(rows, request["data"])
      [] request["action"] = "update" -> handleUpdate(rows, request["data"])
      [] request["action"] = "delete" -> handleDelete(rows, request["id"])
      [] request["action"] = "decrement" -> handleDecrement(rows, request["id"])
      [] OTHER -> [rows |-> rows, body |-> ErrorBody("unknown action")]

\* ------------------------------------------------------------- the transport
\* What one fetch can come to: the script runs and answers; a non-success
\* status; the script's own error answer (the sheet is missing); an answer
\* without the payload; an exception of fetch. Only the first reaches the rows.
Transports(action) ==
    {[t |-> "delivered"], [t |-> "sheet missing"], [t |-> "empty body"], [t |-> "exception"]}
    \cup {[t |-> "status", status |-> s] : s \in HttpStatuses}
    \cup (IF action \in {"add", "decrement"} THEN {[t |-> "success only"]} ELSE {})

Response(ok, status, body) == [kind |-> "response", ok |-> ok, status |-> status, body |-> body]

Fetch(rows, request, tr) ==
    CASE tr["t"] = "delivered" ->
            LET r == doPost(rows, request)
            IN  [rows |-> r["rows"], result |-> Response(TRUE, 200, r["body"])]
      [] tr["t"] = "status" ->
            [rows |-> rows, result |-> Response(FALSE, tr["status"], Empty)]
      [] tr["t"] = "sheet missing" ->
            [rows |-> rows, result |-> Response(TRUE, 200, ErrorBody("sheet not found"))]
      [] tr["t"] = "empty body" ->
            [rows |-> rows, result |-> Response(TRUE, 200, Empty)]
      [] tr["t"] = "success only" ->
            [rows |-> rows, result |-> Response(TRUE, 200, [success |-> TRUE])]
      [] OTHER ->
            [rows |-> rows, result |-> [kind |-> "exception"]]

\* ------------------------------------------------------ GoogleSheetsService
Threw(error) == [threw |-> TRUE, error |-> error]
Returned(v) == [threw |-> FALSE, value |-> v]

\* the checks every POST method makes before it looks at its own payload
PostFailed(result) ==
    \/ result["kind"] = "exception"
    \/ ~result["ok"]
    \/ "error" \in DOMAIN result["body"]
    \/ ~Get(result["body"], "success", FALSE)

sheetsAddPrize(result) ==
    IF PostFailed(result) \/ "prize" \notin DOMAIN result["body"]
    THEN Threw(AdapterError("failed to add the prize to the spreadsheet"))
    ELSE Returned(Value(result["body"]["prize"]))

sheetsUpdatePrize(result) ==
    IF PostFailed(result)
    THEN Threw(AdapterError("failed to update the prize in the spreadsheet"))
    ELSE Returned(Undefined)

sheetsDeletePrize(result) ==
    IF PostFailed(result)
    THEN Threw(AdapterError("failed to delete the prize from the spreadsheet"))
    ELSE Returned(Undefined)

\* a variant of decrementStock that does not look for newStock in the body
sheetsDecrementStockTrusts(result) ==
    IF PostFailed(result)
    THEN Threw(AdapterError("failed to decrement the stock in the spreadsheet"))
    ELSE Returned(Value(Get(result["body"], "newStock", 0)))

sheetsDecrementStock(result) ==
    IF PostFailed(result) \/ "newStock" \notin DOMAIN result["body"]
    THEN Threw(AdapterError("failed to decrement the stock in the spreadsheet"))
    ELSE Returned(Value(result["body"]["newStock"]))

\* ------------------------------------------------ reading the collection
\* Number(cell) || fallback, for a cell that holds a number
NumberOr(cell, fallback) == IF cell # 0 THEN cell ELSE fallback

\* the prize doGet makes of one row
RowToPrize(row, now) ==
    Spread([id |-> row["id"], name |-> row["name"], imageUrl |-> row["imageUrl"],
            stock |-> NumberOr(row["stock"], 0),
            totalStock |-> NumberOr(row["totalStock"], NumberOr(row["stock"], 0)),
            order |-> NumberOr(row["order"], 0),
            createdAt |-> NumberOr(row["createdAt"], now)],
           IF row["description"] # "" THEN [description |-> row["description"]] ELSE Empty)

\* doGet: the rows with an id, as prizes
doGet(rows, now) ==
    LET withId == SelectSeq(rows, LAMBDA row : row["id"] # "")
    IN  [prizes |-> [i \in 1..Len(withId) |-> RowToPrize(withId[i], now)]]

\* statuses of a GET response that is not ok
ReadStatuses == {400, 401, 403, 404, 429, 500, 503}

\* what can come of the GET: the script answers, the sheet is missing, the
\* body carries no prizes, the body is not JSON, fetch rejects, or the status
\* is not ok
ReadTransports ==
    {[t |-> "delivered"], [t |-> "sheet missing"], [t |-> "empty body"],
     [t |-> "not json"], [t |-> "exception"]}
    \cup {[t |-> "status", status |-> st] : st \in ReadStatuses}

FetchGet(rows, tr, now) ==
    CASE tr["t"] = "delivered" -> Response(TRUE, 200, doGet(rows, now))
      [] tr["t"] = "status" -> Response(FALSE, tr["status"], Empty)
      [] tr["t"] = "sheet missing" -> Response(TRUE, 200, ErrorBody("sheet not found"))
      [] tr["t"] = "empty body" -> Response(TRUE, 200, Empty)
      [] tr["t"] = "not json" -> [kind |-> "not json", ok |-> TRUE, status |-> 200]
      [] OTHER -> [kind |-> "exception"]

\* a variant of the taxonomy without the rate-limit case
toGoogleSheetsErrorCategoryNoLimit(status) ==
    IF status = 0 THEN "unknown"
    ELSE IF status = 401 THEN "unauthorized"
    ELSE IF status = 403 THEN "forbidden"
    ELSE IF status = 404 THEN "not_found"
    ELSE IF status >= 500 THEN "server"
    ELSE "unknown"

\* toGoogleSheetsErrorCategory; an absent status is 0
toGoogleSheetsErrorCategory(status) ==
    IF status = 0 THEN "unknown"
    ELSE IF status = 401 THEN "unauthorized"
    ELSE IF status = 403 THEN "forbidden"
    ELSE IF status = 404 THEN "not_found"
    ELSE IF status = 429 THEN "rate_limit"
    ELSE IF status >= 500 THEN "server"
    ELSE "unknown"

\* new GoogleSheetsError(message, options)
GoogleSheetsError(message, options) ==
    Spread([name |-> "GoogleSheetsError", message |-> message,
            category |-> Get(options, "category", "unknown")],
           Pick(options, {"status", "statusText", "details"}))

\* GoogleSheetsService.getPrizes
sheetsGetPrizes(result) ==
    IF result["kind"] = "exception"
    THEN Threw(GoogleSheetsError("network error", [category |-> "network"]))
    ELSE IF ~result["ok"]
    THEN Threw(GoogleSheetsError("HTTP error",
                    [status |-> result["status"], statusText |-> "Unknown error",
                     category |-> toGoogleSheetsErrorCategory(result["status"]),
                     details |-> "Unknown error"]))
    ELSE IF result["kind"] = "not json"
    THEN Threw(GoogleSheetsError("unexpected token", [category |-> "unknown"]))
    ELSE IF "error" \in DOMAIN result["body"]
    THEN Threw(GoogleSheetsError("Apps Script error",
                    [category |-> "script", details |-> result["body"]["error"]]))
    ELSE Returned(Get(result["body"], "prizes", <<>>))

\* ---------------------------------------------------------------- storage
\* content of the local key that JSON.parse rejects
Corrupt == [kind |-> "text"]

\* StorageService.get: the stored collection, or null when the key is absent
\* or its content does not parse
StorageGet(content) == IF content["kind"] = "json" THEN Value(content["prizes"]) ELSE Null

\* ------------------------------------------------- PrizeService operations
\* operations of the current busy period: completed ones and suspended ones
InPeriod == IF calls = {} THEN 0 ELSE Len(log) + Cardinality(calls)

\* What the caller of one operation sees when it completes: the value returned
\* or the error thrown (outcome). With it, for the record: the argument of the
\* call (arg), the collection the store held (before) and the content of the
\* local key (localBefore) when the operation was called, the collection the
\* operation handed to prizesStore.setPrizes last (set: its updatedPrizes, or
\* the currentPrizes of its catch block; the collection it found when it wrote
\* nothing), and what its fetch came to (fetch; NoFetch when it made none).
NoFetch == [kind |-> "none"]

Completion(n, op, arg, status, outcome, before, set, localBefore, fetch) ==
    [n |-> n, op |-> op, arg |-> arg, status |-> status, outcome |-> outcome,
     before |-> before, set |-> set, localBefore |-> localBefore, fetch |-> fetch]

\* an operation that completes without suspending
Completes(op, arg, status, outcome, set) ==
    log' = (IF calls = {} THEN <<>> ELSE log)
           \o <<Completion(InPeriod + 1, op, arg, status, outcome, store, set, local, NoFetch)>>

\* an operation that suspends at its await of the adapter
Suspends(op, arg, request, ret, S0, S1) ==
    /\ calls' = calls \cup {[n |-> InPeriod + 1, op |-> op, arg |-> arg,
                             request |-> request, ret |-> ret, S0 |-> S0, S1 |-> S1,
                             L0 |-> local]}
    /\ log' = (IF calls = {} THEN <<>> ELSE log)

\* calling a method of the null sheetsService throws inside the try block
NullAdapterError == [name |-> "TypeError", message |-> "sheetsService is null"]

\* a variant that, in remote mode, writes the store only after the confirm
PersistLate(op, arg, request, ret, currentPrizes, updatedPrizes, now) ==
    IF isGoogleSheetsEnabled
    THEN IF sheetsService
         THEN /\ store' = currentPrizes
              /\ Suspends(op, arg, request, ret, currentPrizes, updatedPrizes)
              /\ UNCHANGED local
         ELSE /\ store' = currentPrizes
              /\ Completes(op, arg, "throw", NullAdapterError, currentPrizes)
              /\ UNCHANGED <<local, calls>>
    ELSE /\ store' = updatedPrizes
         /\ local' = savePrizes(updatedPrizes, now)
         /\ Completes(op, arg, "ok", ret, updatedPrizes)
         /\ UNCHANGED calls

\* the three ways on after prizesStore.setPrizes(updatedPrizes)
Persist(op, arg, request, ret, currentPrizes, updatedPrizes, now) ==
    IF isGoogleSheetsEnabled
    THEN IF sheetsService
         THEN /\ store' = updatedPrizes
              /\ Suspends(op, arg, request, ret, currentPrizes, updatedPrizes)
              /\ UNCHANGED local
         ELSE /\ store' = currentPrizes
              /\ Completes(op, arg, "throw", NullAdapterError, currentPrizes)
              /\ UNCHANGED <<local, calls>>
    ELSE /\ store' = updatedPrizes
         /\ local' = savePrizes(updatedPrizes, now)
         /\ Completes(op, arg, "ok", ret, updatedPrizes)
         /\ UNCHANGED calls

\* a lookup that found nothing: the operation throws before it writes
ThrowsNotFound(op, arg) ==
    /\ Completes(op, arg, "throw", NotFoundError, store)
    /\ UNCHANGED <<store, local, calls>>

\* a variant of addPrize that takes the id from the number of prizes
AddPrizeIdByCount(request, now) ==
    /\ nextId < Len(IdNames)
    /\ nextId' = nextId + 1
    /\ LET newPrize == NewPrize(request, IdNames[Len(store) + 1], now, store)
           currentPrizes == store
           updatedPrizes == Append(currentPrizes, newPrize)
       IN  Persist("addPrize", request, [action |-> "add", data |-> newPrize],
                   Value(newPrize), currentPrizes, updatedPrizes, now)
    /\ UNCHANGED <<sheet, dataSource, apiUrl, sheetsService>>

\* a variant of addPrize that puts the new prize first
AddPrizePrepends(request, now) ==
    /\ nextId < Len(IdNames)
    /\ nextId' = nextId + 1
    /\ LET newPrize == NewPrize(request, IdNames[nextId + 1], now, store)
           currentPrizes == store
           updatedPrizes == <<newPrize>> \o currentPrizes
       IN  Persist("addPrize", request, [action |-> "add", data |-> newPrize],
                   Value(newPrize), currentPrizes, updatedPrizes, now)
    /\ UNCHANGED <<sheet, dataSource, apiUrl, sheetsService>>

AddPrize(request, now) ==
    /\ nextId < Len(IdNames)
    /\ nextId' = nextId + 1
    /\ LET newPrize == NewPrize(request, IdNames[nextId + 1], now, store)
           currentPrizes == store
           updatedPrizes == Append(currentPrizes, newPrize)
       IN  Persist("addPrize", request, [action |-> "add", data |-> newPrize],
                   Value(newPrize), currentPrizes, updatedPrizes, now)
    /\ UNCHANGED <<sheet, dataSource, apiUrl, sheetsService>>

\* a variant of updatePrize that moves the updated prize to the end
UpdatePrizeMovesLast(request, now) ==
    /\ LET currentPrizes == store
           targetIndex == FindIndex(currentPrizes, request["id"])
       IN  IF targetIndex = 0
           THEN ThrowsNotFound("updatePrize", request)
           ELSE LET updatedPrize == UpdatedPrize(currentPrizes[targetIndex], targetIndex,
                                                 request, now)
                    updatedPrizes == Append(FilterOut(currentPrizes, request["id"]),
                                            updatedPrize)
                IN  Persist("updatePrize", request, [action |-> "update", data |-> request],
                            Undefined, currentPrizes, updatedPrizes, now)
    /\ UNCHANGED <<sheet, dataSource, apiUrl, sheetsService, nextId>>

UpdatePrize(request, now) ==
    /\ LET currentPrizes == store
           targetIndex == FindIndex(currentPrizes, request["id"])
       IN  IF targetIndex = 0
           THEN ThrowsNotFound("updatePrize", request)
           ELSE LET updatedPrize == UpdatedPrize(currentPrizes[targetIndex], targetIndex,
                                                 request, now)
                    updatedPrizes == [currentPrizes EXCEPT ![targetIndex] = updatedPrize]
                IN  Persist("updatePrize", request, [action |-> "update", data |-> request],
                            Undefined, currentPrizes, updatedPrizes, now)
    /\ UNCHANGED <<sheet, dataSource, apiUrl, sheetsService, nextId>>

\* a variant of deletePrize that removes the first prize
DeletePrizeFirst(id, now) ==
    /\ LET currentPrizes == store
           targetIndex == FindIndex(currentPrizes, id)
       IN  IF targetIndex = 0
           THEN ThrowsNotFound("deletePrize", id)
           ELSE Persist("deletePrize", id, [action |-> "delete", id |-> id],
                        Undefined, currentPrizes, Tail(currentPrizes), now)
    /\ UNCHANGED <<sheet, dataSource, apiUrl, sheetsService, nextId>>

\* a variant of deletePrize without the not-found check
DeletePrizeUnchecked(id, now) ==
    /\ Persist("deletePrize", id, [action |-> "delete", id |-> id],
               Undefined, store, FilterOut(store, id), now)
    /\ UNCHANGED <<sheet, dataSource, apiUrl, sheetsService, nextId>>

DeletePrize(id, now) ==
    /\ LET currentPrizes == store
           targetIndex == FindIndex(currentPrizes, id)
       IN  IF targetIndex = 0
           THEN ThrowsNotFound("deletePrize", id)
           ELSE Persist("deletePrize", id, [action |-> "delete", id |-> id],
                        Undefined, currentPrizes, FilterOut(currentPrizes, id), now)
    /\ UNCHANGED <<sheet, dataSource, apiUrl, sheetsService, nextId>>

DecrementStock(id, now) ==
    /\ LET currentPrizes == store
           targetIndex == FindIndex(currentPrizes, id)
       IN  IF targetIndex = 0
           THEN ThrowsNotFound("decrementStock", id)
           ELSE LET updatedPrize == DecrementedPrize(currentPrizes[targetIndex])
                    updatedPrizes == [currentPrizes EXCEPT ![targetIndex] = updatedPrize]
                IN  Persist("decrementStock", id, [action |-> "decrement", id |-> id],
                            Undefined, currentPrizes, updatedPrizes, now)
    /\ UNCHANGED <<sheet, dataSource, apiUrl, sheetsService, nextId>>

\* prizesStore.availablePrizes: the prizes with stock left, in store order
availablePrizes(prizes) == SelectSeq(prizes, LAMBDA p : p["stock"] > 0)

\* a variant of drawPrize that picks among all the prizes of the store
DrawPrizeFromAll(randomIndex) ==
    /\ IF Len(store) = 0
       THEN Completes("drawPrize", <<>>, "ok", Null, store)
       ELSE /\ randomIndex \in 1..Len(store)
            /\ Completes("drawPrize", <<>>, "ok", Value(store[randomIndex]), store)
    /\ UNCHANGED <<store, local, sheet, dataSource, apiUrl, sheetsService, calls, nextId>>

\* a variant of drawPrize that takes the drawn prize out of the stock
DrawPrizeTakes(randomIndex) ==
    /\ IF Len(availablePrizes(store)) = 0
       THEN /\ Completes("drawPrize", <<>>, "ok", Null, store)
            /\ UNCHANGED store
       ELSE /\ randomIndex \in 1..Len(availablePrizes(store))
            /\ Completes("drawPrize", <<>>, "ok",
                         Value(availablePrizes(store)[randomIndex]), store)
            /\ store' = [store EXCEPT
                            ![FindIndex(store, availablePrizes(store)[randomIndex]["id"])]["stock"]
                                = @ - 1]
    /\ UNCHANGED <<local, sheet, dataSource, apiUrl, sheetsService, calls, nextId>>

\* drawPrize, with randomIndex the index Math.floor(Math.random() * length)
\* comes to (counted from 1)
DrawPrize(randomIndex) ==
    /\ IF Len(availablePrizes(store)) = 0
       THEN Completes("drawPrize", <<>>, "ok", Null, store)
       ELSE /\ randomIndex \in 1..Len(availablePrizes(store))
            /\ Completes("drawPrize", <<>>, "ok",
                         Value(availablePrizes(store)[randomIndex]), store)
    /\ UNCHANGED <<store, local, sheet, dataSource, apiUrl, sheetsService, calls, nextId>>

\* the operations that write: they await one of the adapter's POST methods
MutatingOps == {"addPrize", "updatePrize", "deletePrize", "decrementStock"}

\* what the adapter method awaited by the operation makes of the fetch
Adapter(op, result) ==
    CASE op = "addPrize" -> sheetsAddPrize(result)
      [] op = "updatePrize" -> sheetsUpdatePrize(result)
      [] op = "deletePrize" -> sheetsDeletePrize(result)
      [] OTHER -> sheetsDecrementStock(result)

\* variants of the catch blocks that leave the optimistic collection in place
AddPrizeCatchKeeps(c) == c["S1"]
UpdatePrizeCatchKeeps(c) == c["S1"]
DecrementStockCatchKeeps(c) == c["S1"]

\* a variant of deletePrize's catch block that leaves the prize deleted, and
\* one of decrementStock's that empties the store
DeletePrizeCatchKeeps(c) == c["S1"]
DecrementStockCatchClears(c) == <<>>

\* the collection each catch block hands to prizesStore.setPrizes
AddPrizeCatch(c) == c["S0"]
UpdatePrizeCatch(c) == c["S0"]
DeletePrizeCatch(c) == c["S0"]
DecrementStockCatch(c) == c["S0"]

CatchStore(c) ==
    CASE c["op"] = "addPrize" -> AddPrizeCatch(c)
      [] c["op"] = "updatePrize" -> UpdatePrizeCatch(c)
      [] c["op"] = "deletePrize" -> DeletePrizeCatch(c)
      [] OTHER -> DecrementStockCatch(c)

\* a variant in which the awaited call resolves and the operation stays put
SettleHangs(c, tr) ==
    /\ c \in calls
    /\ UNCHANGED <<store, local, sheet, dataSource, apiUrl, sheetsService, calls, nextId, log>>

\* a variant in which a failed confirm rolls back and sends the request again
SettleRetries(c, tr) ==
    /\ c \in calls
    /\ LET f == Fetch(sheet, c["request"], tr)
           a == Adapter(c["op"], f["result"])
       IN  /\ sheet' = f["rows"]
           /\ IF a["threw"]
              THEN /\ calls' = calls
                   /\ store' = CatchStore(c)
                   /\ log' = Append(log, Completion(c["n"], c["op"], c["arg"], "throw",
                                                    a["error"], c["S0"], CatchStore(c),
                                                    c["L0"], f["result"]))
              ELSE /\ calls' = calls \ {c}
                   /\ store' = store
                   /\ log' = Append(log, Completion(c["n"], c["op"], c["arg"], "ok",
                                                    c["ret"], c["S0"], c["S1"],
                                                    c["L0"], f["result"]))
    /\ UNCHANGED <<local, dataSource, apiUrl, sheetsService, nextId>>

\* The awaited adapter call of a suspended operation settles: the fetch comes
\* to tr, the adapter returns or throws, and the operation runs on to its end
\* (the catch block, or the return).
Settle(c, tr) ==
    /\ c \in calls
    /\ LET f == Fetch(sheet, c["request"], tr)
           a == Adapter(c["op"], f["result"])
       IN  /\ sheet' = f["rows"]
           /\ calls' = calls \ {c}
           /\ IF a["threw"]
              THEN /\ store' = CatchStore(c)
                   /\ log' = Append(log, Completion(c["n"], c["op"], c["arg"], "throw",
                                                    a["error"], c["S0"], CatchStore(c),
                                                    c["L0"], f["result"]))
              ELSE /\ store' = store
                   /\ log' = Append(log, Completion(c["n"], c["op"], c["arg"], "ok",
                                                    c["ret"], c["S0"], c["S1"],
                                                    c["L0"], f["result"]))
    /\ UNCHANGED <<local, dataSource, apiUrl, sheetsService, nextId>>

\* ------------------------------------------------ loading and start-up
\* prizes.map((p) => this.normalizePrize(p))
LoadedPrizes(prizes, now) == [i \in 1..Len(prizes) |-> normalizePrize(prizes[i], now)]

\* the local branch of loadPrizes: what it hands to prizesStore.setPrizes
LoadLocal(content, now) ==
    IF StorageGet(content) # Null
    THEN LoadedPrizes(StorageGet(content)["val"], now)
    ELSE <<>>

\* a variant of the remote branch that leaves the store alone when getPrizes throws
LoadRemoteKeeps(result, now) ==
    LET a == sheetsGetPrizes(result)
    IN  IF a["threw"]
        THEN [threw |-> TRUE, error |-> a["error"], set |-> store]
        ELSE [threw |-> FALSE, set |-> LoadedPrizes(a["value"], now)]

\* the remote branch of loadPrizes once getPrizes has settled: the collection
\* it hands to prizesStore.setPrizes, and whether it throws
LoadRemote(result, now) ==
    LET a == sheetsGetPrizes(result)
    IN  IF a["threw"]
        THEN [threw |-> TRUE, error |-> a["error"], set |-> <<>>]
        ELSE [threw |-> FALSE, set |-> LoadedPrizes(a["value"], now)]

\* the operations that read: they await getPrizes
ReadOps == {"loadPrizes", "initialize"}

\* a read operation reaches its await of getPrizes, or throws in its try block
\* when there is no adapter; orElse is what follows the catch of loadPrizes
AwaitsGetPrizes(op, orElse) ==
    IF sheetsService
    THEN /\ Suspends(op, <<>>, [action |-> "get"], Undefined, store, store)
         /\ UNCHANGED <<store, local, currentError>>
    ELSE orElse

\* a variant of loadPrizes that lets the parse error of the local key through
LoadPrizesParses(now) ==
    /\ ~isGoogleSheetsEnabled
    /\ store' = LoadLocal(local, now)
    /\ Completes("loadPrizes", <<>>, IF local = Corrupt THEN "throw" ELSE "ok",
                 IF local = Corrupt THEN [name |-> "SyntaxError", message |-> "unexpected token"]
                 ELSE Undefined,
                 LoadLocal(local, now))
    /\ UNCHANGED <<local, calls, currentError>>
    /\ UNCHANGED <<sheet, dataSource, apiUrl, sheetsService, nextId>>

LoadPrizes(now) ==
    /\ IF isGoogleSheetsEnabled
       THEN AwaitsGetPrizes("loadPrizes",
                /\ store' = <<>>
                /\ Completes("loadPrizes", <<>>, "throw", NullAdapterError, <<>>)
                /\ UNCHANGED <<local, calls, currentError>>)
       ELSE /\ store' = LoadLocal(local, now)
            /\ Completes("loadPrizes", <<>>, "ok", Undefined, LoadLocal(local, now))
            /\ UNCHANGED <<local, calls, currentError>>
    /\ UNCHANGED <<sheet, dataSource, apiUrl, sheetsService, nextId>>

\* a variant of checkDataIntegrity that accepts any stock
checkDataIntegrityAnyStock(prizes) ==
    \A i \in 1..Len(prizes) :
        LET prize == prizes[i]
        IN  /\ "id" \in DOMAIN prize /\ prize["id"] # ""
            /\ "name" \in DOMAIN prize /\ prize["name"] # ""
            /\ "imageUrl" \in DOMAIN prize
            /\ "createdAt" \in DOMAIN prize

\* DataInitializer.checkDataIntegrity
checkDataIntegrity(prizes) ==
    \A i \in 1..Len(prizes) :
        LET prize == prizes[i]
        IN  /\ "id" \in DOMAIN prize /\ prize["id"] # ""
            /\ "name" \in DOMAIN prize /\ prize["name"] # ""
            /\ "imageUrl" \in DOMAIN prize
            /\ "stock" \in DOMAIN prize /\ prize["stock"] >= 0
            /\ "createdAt" \in DOMAIN prize

\* DataInitializer.buildUserFacingMessage
buildUserFacingMessage(error) ==
    IF error["name"] # "GoogleSheetsError" THEN "could not get the data from Google Sheets"
    ELSE CASE error["category"] = "network" -> "network or CORS problem"
           [] error["category"] = "unauthorized" -> "authentication required"
           [] error["category"] = "forbidden" -> "access denied by the deployment"
           [] error["category"] = "not_found" -> "script URL or sheet not found"
           [] error["category"] = "rate_limit" -> "execution quota reached"
           [] error["category"] = "server" -> "temporary failure at Google"
           [] error["category"] = "script" -> "exception inside the script"
           [] OTHER -> "could not get the data from Google Sheets"

\* DataInitializer.describeCategory
describeCategory(category) ==
    CASE category = "network" -> "network/CORS"
      [] category = "unauthorized" -> "authentication (401)"
      [] category = "forbidden" -> "permission (403)"
      [] category = "not_found" -> "not found (404)"
      [] category = "rate_limit" -> "rate limit (429)"
      [] category = "server" -> "Google failure (5xx)"
      [] category = "script" -> "script error"
      [] OTHER -> "unknown"

\* DataInitializer.buildErrorDetails: the lines, by what they report
buildErrorDetails(error, now) ==
    Spread([message |-> error["message"], source |-> "Google Sheets", url |-> apiUrl,
            timestamp |-> now],
           IF error["name"] = "GoogleSheetsError"
           THEN Spread([category |-> describeCategory(error["category"])],
                       Pick(error, {"status", "details"}))
           ELSE Empty)

\* DataInitializer.buildErrorPayload
buildErrorPayload(error, now) ==
    IF ~isGoogleSheetsEnabled
    THEN [message |-> "could not read the data from local storage",
          details |-> [message |-> error["message"], source |-> "local storage",
                       timestamp |-> now]]
    ELSE [message |-> buildUserFacingMessage(error),
          details |-> buildErrorDetails(error, now)]

\* errorStore.setError
AppError(title, message, details, now) ==
    [title |-> title, message |-> message, details |-> details, timestamp |-> now]

\* the try block of initialize after loadPrizes has returned with prizesStore
\* holding loadedPrizes: the integrity check, and clearData when it fails
InitializeChecks(n, loadedPrizes, before, localBefore, fetch) ==
    LET cleared == Len(loadedPrizes) > 0 /\ ~checkDataIntegrity(loadedPrizes)
        kept == IF cleared THEN <<>> ELSE loadedPrizes
    IN  /\ store' = kept
        /\ local' = (IF cleared THEN Absent ELSE local)
        /\ UNCHANGED currentError
        /\ log' = (IF calls = {} THEN <<>> ELSE log)
                  \o <<Completion(n, "initialize", <<>>, "ok", Undefined, before, kept,
                                  localBefore, fetch)>>

\* a variant of the catch block that reports nothing
InitializeCatchSilent(n, error, before, localBefore, fetch, now) ==
    /\ store' = <<>>
    /\ UNCHANGED <<currentError, local>>
    /\ log' = (IF calls = {} THEN <<>> ELSE log)
              \o <<Completion(n, "initialize", <<>>, "ok", Undefined, before, <<>>,
                              localBefore, fetch)>>

\* the catch block of initialize
InitializeCatch(n, error, before, localBefore, fetch, now) ==
    /\ store' = <<>>
    /\ currentError' = AppError("data loading error", buildErrorPayload(error, now)["message"],
                                buildErrorPayload(error, now)["details"], now)
    /\ UNCHANGED local
    /\ log' = (IF calls = {} THEN <<>> ELSE log)
              \o <<Completion(n, "initialize", <<>>, "ok", Undefined, before, <<>>,
                              localBefore, fetch)>>

Initialize(now) ==
    /\ IF isGoogleSheetsEnabled
       THEN AwaitsGetPrizes("initialize",
                /\ InitializeCatch(InPeriod + 1, NullAdapterError, store, local, NoFetch, now)
                /\ UNCHANGED calls)
       ELSE /\ InitializeChecks(InPeriod + 1, LoadLocal(local, now), store, local, NoFetch)
            /\ UNCHANGED calls
    /\ UNCHANGED <<sheet, dataSource, apiUrl, sheetsService, nextId>>

\* getPrizes settles for a suspended read operation, which runs on to its end
SettleRead(c, tr, now) ==
    /\ c \in calls
    /\ c["op"] \in ReadOps
    /\ calls' = calls \ {c}
    /\ LET result == FetchGet(sheet, tr, now)
           loaded == LoadRemote(result, now)
       IN  IF c["op"] = "loadPrizes"
           THEN /\ store' = loaded["set"]
                /\ log' = Append(log, Completion(c["n"], "loadPrizes", <<>>,
                                     IF loaded["threw"] THEN "throw" ELSE "ok",
                                     IF loaded["threw"] THEN loaded["error"] ELSE Undefined,
                                     c["S0"], loaded["set"], c["L0"], result))
                /\ UNCHANGED <<local, currentError>>
           ELSE IF loaded["threw"]
                THEN InitializeCatch(c["n"], loaded["error"], c["S0"], c["L0"], result, now)
                ELSE InitializeChecks(c["n"], loaded["set"], c["S0"], c["L0"], result)
    /\ UNCHANGED <<sheet, dataSource, apiUrl, sheetsService, nextId>>

\* ------------------------------------------------------ PrizeDisplayService
RECURSIVE SumSeq(_)
SumSeq(numbers) == IF numbers = <<>> THEN 0 ELSE Head(numbers) + SumSeq(Tail(numbers))

\* PrizeDisplayService.getStats, of the store's prizes
getStats(prizes) ==
    LET totalCount == Len(prizes)
        availableCount == Cardinality({i \in 1..Len(prizes) : prizes[i]["stock"] > 0})
        outOfStockCount == Cardinality({i \in 1..Len(prizes) : prizes[i]["stock"] = 0})
        remainingStock == SumSeq([i \in 1..Len(prizes) |-> prizes[i]["stock"]])
        totalStockCapacity ==
            SumSeq([i \in 1..Len(prizes) |-> Get(prizes[i], "totalStock", prizes[i]["stock"])])
    IN  [totalCount |-> totalCount, availableCount |-> availableCount,
         outOfStockCount |-> outOfStockCount, remainingStock |-> remainingStock,
         totalStockCapacity |-> totalStockCapacity, totalStock |-> remainingStock]

\* a variant of getPrizeDisplayInfo that does not ask for stock left
getPrizeDisplayInfoAnyStock(prizes, prizeId) ==
    IF FindIndex(prizes, prizeId) = 0
    THEN Threw(NotFoundError)
    ELSE LET prize == prizes[FindIndex(prizes, prizeId)]
             denominator == Get(prize, "totalStock", prize["stock"])
             ratio == IF denominator > 0 THEN <<prize["stock"], denominator>> ELSE <<1, 1>>
             isLowStock == 10 * ratio[1] <= ratio[2]
         IN  Returned([prize |-> prize, isLowStock |-> isLowStock])

\* PrizeDisplayService.getPrizeDisplayInfo, without probability and rarity.
\* The ratio is kept as numerator and denominator, the denominator positive:
\* ratio <= 0.1 is 10 * numerator <= denominator.
getPrizeDisplayInfo(prizes, prizeId) ==
    IF FindIndex(prizes, prizeId) = 0
    THEN Threw(NotFoundError)
    ELSE LET prize == prizes[FindIndex(prizes, prizeId)]
             denominator == Get(prize, "totalStock", prize["stock"])
             ratio == IF denominator > 0 THEN <<prize["stock"], denominator>> ELSE <<1, 1>>
             isLowStock == prize["stock"] > 0 /\ 10 * ratio[1] <= ratio[2]
         IN  Returned([prize |-> prize, isLowStock |-> isLowStock])

\* DataSourceStore.setDataSource
SetDataSource(source) ==
    /\ dataSource' = source
    /\ UNCHANGED <<store, local, sheet, apiUrl, sheetsService, calls, nextId, log, currentError>>

\* ------------------------------------------------------------------ callers
AddRequests ==
    {Spread([name |-> nm, imageUrl |-> img, stock |-> st], ts) :
        nm \in Names, img \in ImageUrls, st \in StockVals,
        ts \in {Empty} \cup {[totalStock |-> t] : t \in StockVals}}

CallIds == {IdNames[i] : i \in 1..MaxIds} \cup {NoSuchId}

UpdateRequests ==
    {[id |-> id, stock |-> st] : id \in CallIds, st \in StockVals}
    \cup {[id |-> id, totalStock |-> ts] : id \in CallIds, ts \in StockVals}

\* One step of a caller that keeps at most limit operations in a busy period
\* and draws its requests from adds and updates, its ids from ids: it adds
\* while nanoid() has handed out fewer than idLimit ids, or it updates,
\* deletes or decrements.
Adds(limit, idLimit, adds) ==
    \E request \in adds, now \in Times :
        /\ InPeriod < limit /\ nextId < idLimit
        /\ AddPrize(request, now) /\ UNCHANGED currentError

Mutates(limit, updates, ids) ==
    \/ \E request \in updates, now \in Times :
            InPeriod < limit /\ UpdatePrize(request, now) /\ UNCHANGED currentError
    \/ \E id \in ids, now \in Times :
            InPeriod < limit /\ DeletePrize(id, now) /\ UNCHANGED currentError
    \/ \E id \in ids, now \in Times :
            InPeriod < limit /\ DecrementStock(id, now) /\ UNCHANGED currentError

Invoke(limit, adds, updates, ids) ==
    \/ Adds(limit, MaxIds, adds)
    \/ Mutates(limit, updates, ids)

Settles ==
    \E c \in calls :
        /\ c["op"] \in MutatingOps
        /\ \E tr \in Transports(c["request"]["action"]) : Settle(c, tr)
        /\ UNCHANGED currentError

\* a caller draws, when fewer than limit operations ran in the busy period
Draws(limit) ==
    \E randomIndex \in 1..Max(1, Len(availablePrizes(store))) :
        InPeriod < limit /\ DrawPrize(randomIndex) /\ UNCHANGED currentError

\* the service as constructed, nothing stored anywhere yet
InitAs(source, url) ==
    /\ store = <<>>
    /\ local = Absent
    /\ sheet = <<>>
    /\ dataSource = source
    /\ apiUrl = url
    /\ sheetsService = (source = "sheets" /\ url # "")
    /\ calls = {}
    /\ nextId = 0
    /\ log = <<>>
    /\ currentError = Null

Init == \E source \in {"local", "sheets"} : InitAs(source, "https://script.example/exec")

\* a caller that awaits each operation before it starts the next
Next ==
    \/ Invoke(1, AddRequests, UpdateRequests, CallIds)
    \/ Settles

Spec == Init /\ [][Next]_vars

\* A caller that starts a second operation while the first is suspended, in
\* remote mode. It adds full prizes, sets a stock to 0, and names only ids
\* that nanoid() hands out.
PairAdds == {[name |-> nm, imageUrl |-> img, stock |-> MaxStock] : nm \in Names, img \in ImageUrls}
PairIds == CallIds \ {NoSuchId}
PairUpdates == {[id |-> id, stock |-> 0] : id \in PairIds}

InitRemote == InitAs("sheets", "https://script.example/exec")

NextPair ==
    \/ Invoke(2, PairAdds, PairUpdates, PairIds)
    \/ Settles

SpecPair == InitRemote /\ [][NextPair]_vars

\* A caller that draws between and during remote or local operations that it
\* awaits one at a time.
NextDraw ==
    \/ Invoke(1, PairAdds, PairUpdates, PairIds)
    \/ Settles
    \/ Draws(2)

SpecDraw == Init /\ [][NextDraw]_vars

\* The start of the application: the local key and the sheet hold what earlier
\* runs (or somebody's hands) left there, the store is empty.
StoredIds == <<"s1", "s2">>

\* records as they may be stored: written by an older version without
\* totalStock and order, complete ones, and one without a name
StoredRecords(id) ==
    {[id |-> id, name |-> "A", imageUrl |-> "/a.png", stock |-> st, createdAt |-> 500] :
        st \in StockVals}
    \cup {[id |-> id, name |-> "A", imageUrl |-> "/a.png", stock |-> st, totalStock |-> ts,
           order |-> 1, createdAt |-> 500] : st \in StockVals, ts \in StockVals}
    \cup {[id |-> id, name |-> "", imageUrl |-> "/a.png", stock |-> MaxStock,
           totalStock |-> MaxStock, order |-> 1, createdAt |-> 500]}

LocalContents ==
    {Absent, Corrupt, Stored(<<>>)}
    \cup {Stored(<<a>>) : a \in StoredRecords(StoredIds[1])}
    \cup {Stored(<<a, b>>) : a \in StoredRecords(StoredIds[1]), b \in StoredRecords(StoredIds[2])}

\* rows as the sheet may hold them: every column filled in
SheetRows(id) ==
    {[id |-> id, name |-> nm, imageUrl |-> "/a.png", stock |-> st, totalStock |-> ts,
      description |-> "", order |-> 1, createdAt |-> 500] :
        nm \in {"A"}, st \in StockVals, ts \in StockVals}
    \cup {[id |-> id, name |-> "", imageUrl |-> "/a.png", stock |-> MaxStock,
           totalStock |-> MaxStock, description |-> "", order |-> 1, createdAt |-> 500]}

SheetContents ==
    {<<>>}
    \cup {<<a>> : a \in SheetRows(StoredIds[1])}
    \cup {<<a, b>> : a \in SheetRows(StoredIds[1]), b \in SheetRows(StoredIds[2])}

InitStartup ==
    /\ store = <<>>
    /\ \/ /\ dataSource = "local"
          /\ local \in LocalContents
          /\ sheet = <<>>
       \/ /\ dataSource = "sheets"
          /\ local \in {Absent, Stored(<<[id |-> StoredIds[1], name |-> "A", imageUrl |-> "/a.png",
                                         stock |-> MaxStock, createdAt |-> 500]>>)}
          /\ sheet \in SheetContents
    /\ apiUrl = "https://script.example/exec"
    /\ sheetsService = (dataSource = "sheets")
    /\ calls = {}
    /\ nextId = 0
    /\ log = <<>>
    /\ currentError = Null

Loads(limit) == \E now \in Times : InPeriod < limit /\ LoadPrizes(now)

Initializes(limit) == \E now \in Times : InPeriod < limit /\ Initialize(now)

Reads == \E c \in calls : \E tr \in ReadTransports, now \in Times : SettleRead(c, tr, now)

NextStartup ==
    \/ Loads(1)
    \/ Initializes(1)
    \/ Reads
    \/ Draws(2)

SpecStartup == InitStartup /\ [][NextStartup]_vars

\* The service under each configuration: the flag on either side, the endpoint
\* URL set or left empty. The caller awaits each operation.
EndpointUrls == {"", "https://script.example/exec"}

InitConfig == \E source \in {"local", "sheets"}, url \in EndpointUrls : InitAs(source, url)

NextConfig ==
    \/ Invoke(1, PairAdds, PairUpdates, PairIds)
    \/ Settles
    \/ Loads(1)
    \/ Reads

SpecConfig == InitConfig /\ [][NextConfig]_vars

\* The same service and caller when every fetch resolves in the end: a call in
\* flight does not stay in flight forever.
SpecResolving == SpecConfig /\ WF_vars(Settles) /\ WF_vars(Reads)

\* A kiosk that shows whether a prize runs low: its prizes come with a
\* totalStock of ten times the stock bound, or with none.
DisplayAdds ==
    {[name |-> nm, imageUrl |-> img, stock |-> MaxStock + 1, totalStock |-> 10 * MaxStock] :
        nm \in Names, img \in ImageUrls}
    \cup PairAdds
DisplayUpdates ==
    {[id |-> id, stock |-> MaxStock] : id \in PairIds}
    \cup {[id |-> id, totalStock |-> 10 * MaxStock + 1] : id \in PairIds}

NextDisplay ==
    \/ Adds(1, MaxIds, DisplayAdds)
    \/ Mutates(1, DisplayUpdates, PairIds)
    \/ Settles

SpecDisplay == Init /\ [][NextDisplay]_vars

\* The service while somebody switches the data source in the settings.
Switches == \E source \in {"local", "sheets"} : source # dataSource /\ SetDataSource(source)

NextSwitch ==
    \/ Invoke(1, PairAdds, PairUpdates, PairIds)
    \/ Settles
    \/ Switches

SpecSwitch == InitConfig /\ [][NextSwitch]_vars

\* A caller that builds up a collection of several prizes, one awaited
\* operation at a time: it adds, changes stock or totalStock, renames the first prize, deletes
\* and decrements.
\* the ids nanoid() hands this caller: all but the last of IdNames
SeqIds == {IdNames[i] : i \in 1..(Len(IdNames) - 1)}
SeqUpdates ==
    {[id |-> id, stock |-> 0] : id \in SeqIds}
    \cup {[id |-> id, totalStock |-> 0] : id \in SeqIds}
    \cup {[id |-> IdNames[1], name |-> "B"]}

NextSeq ==
    \/ Adds(1, Cardinality(SeqIds), PairAdds)
    \/ Mutates(1, SeqUpdates, SeqIds)
    \/ Settles

SpecSeq == Init /\ [][NextSeq]_vars

\* --------------------------------------------------------------- properties
\* the completion the caller saw last
Last == log[Len(log)]
\* an operation has completed and no other shared its busy period
Alone == calls = {} /\ Len(log) = 1
\* the prize with this id in a collection (the collection holds one)
PrizeOf(prizes, id) == prizes[FindIndex(prizes, id)]
Holds(prizes, id) == FindIndex(prizes, id) # 0
\* the id an operation was called with
ArgId(done) == IF done["op"] \in {"deletePrize", "decrementStock"} THEN done["arg"]
               ELSE done["arg"]["id"]
Remote(done) == done["fetch"] # NoFetch

\* The confirm step failed: a non-success status, an error field in the body,
\* a body without the operation's payload, or an exception of the transport.
ConfirmFailed(op, fetch) ==
    \/ fetch["kind"] = "exception"
    \/ ~fetch["ok"]
    \/ "error" \in DOMAIN fetch["body"]
    \/ "success" \notin DOMAIN fetch["body"]
    \/ op = "addPrize" /\ "prize" \notin DOMAIN fetch["body"]
    \/ op = "decrementStock" /\ "newStock" \notin DOMAIN fetch["body"]

\* C1: in remote mode, when an addPrize that no other operation overlapped
\* completes after its confirm step failed, the store holds the collection it
\* held when addPrize was called (the appended prize is gone) and the caller
\* is thrown the error of the backend adapter.
C1_AddPrizeRollsBack ==
    (Alone /\ Last["op"] = "addPrize" /\ Remote(Last)
       /\ ConfirmFailed("addPrize", Last["fetch"]))
    => /\ store = Last["before"]
       /\ Last["status"] = "throw"
       /\ Last["outcome"] = AdapterError("failed to add the prize to the spreadsheet")

C1_Witness ==
    /\ Alone /\ Last["op"] = "addPrize" /\ Remote(Last)
    /\ Last["fetch"]["kind"] = "exception"
    /\ Last["status"] = "throw"
    /\ store = <<>>

\* C2: in remote mode, when an updatePrize, deletePrize or decrementStock that
\* no other operation overlapped completes after its confirm call failed, the
\* store holds the snapshot the operation read when it was called, and the
\* caller is thrown the very error the adapter threw.
C2_MutationsRollBack ==
    (Alone /\ Last["op"] \in {"updatePrize", "deletePrize", "decrementStock"} /\ Remote(Last)
       /\ ConfirmFailed(Last["op"], Last["fetch"]))
    => /\ store = Last["before"]
       /\ Last["status"] = "throw"
       /\ Adapter(Last["op"], Last["fetch"])["threw"]
       /\ Last["outcome"] = Adapter(Last["op"], Last["fetch"])["error"]

C2_Witness ==
    /\ Alone /\ Last["op"] = "decrementStock" /\ Remote(Last)
    /\ Last["fetch"]["kind"] = "response" /\ ~Last["fetch"]["ok"]
    /\ Last["status"] = "throw"
    /\ Holds(store, Last["arg"])
    /\ PrizeOf(store, Last["arg"])["stock"] = 1

\* the prize an addPrize or updatePrize wrote, and the one an operation found
Written(done) ==
    IF done["op"] = "addPrize" THEN done["set"][Len(done["set"])]
    ELSE PrizeOf(done["set"], ArgId(done))
Prior(done) == PrizeOf(done["before"], ArgId(done))

\* the backend holds the records of the store: the same ids, and for each id
\* the same stock, totalStock and order
SameInventory(prizes, rows) ==
    /\ {prizes[i]["id"] : i \in 1..Len(prizes)} = {rows[i]["id"] : i \in 1..Len(rows)}
    /\ \A i \in 1..Len(prizes) :
         LET p == prizes[i]
             r == PrizeOf(rows, p["id"])
         IN  /\ p["stock"] = r["stock"]
             /\ Get(p, "totalStock", p["stock"]) = r["totalStock"]
             /\ Get(p, "order", 0) = r["order"]

\* C3: in remote mode, with operations issued one at a time, an operation
\* that starts with the store and the backend holding the same records and is
\* confirmed leaves them holding the same records again (same stock,
\* totalStock and order for every id), also when it is an updatePrize whose
\* stock exceeds totalStock.
C3_StoreMatchesBackend ==
    [][(/\ \E c \in calls : calls = {c} /\ SameInventory(c["S0"], sheet)
        /\ calls' = {} /\ log' # <<>>
        /\ Last'["status"] = "ok")
       => SameInventory(store', sheet')]_vars

\* C4: the prize a completed addPrize or updatePrize wrote to the store has
\* 0 <= stock <= totalStock, whatever integers the request carried.
C4_StockWithinTotal ==
    (log # <<>> /\ Last["op"] \in {"addPrize", "updatePrize"} /\ Last["status"] = "ok")
    => /\ 0 <= Written(Last)["stock"]
       /\ Written(Last)["stock"] <= Written(Last)["totalStock"]

\* the totalStock an addPrize or updatePrize request leaves in force (the one
\* supplied, else the prize's prior one), and the stock it asks for
TotalInForce(done) ==
    IF done["op"] = "addPrize" THEN Get(done["arg"], "totalStock", done["arg"]["stock"])
    ELSE Get(done["arg"], "totalStock",
             Get(Prior(done), "totalStock", Prior(done)["stock"]))
StockAsked(done) ==
    IF done["op"] = "addPrize" THEN done["arg"]["stock"]
    ELSE Get(done["arg"], "stock", Prior(done)["stock"])

C6_UpdateSetsRequestedStock ==
    [][(/\ calls = {} /\ log # <<>>
        /\ Last["op"] = "addPrize" /\ Last["status"] = "ok"
        /\ "totalStock" \notin DOMAIN Last["arg"]
        /\ Last["arg"]["stock"] >= 0
        /\ calls' = {} /\ log' # <<>>
        /\ Last'["op"] = "updatePrize" /\ Last'["status"] = "ok"
        /\ Last'["before"] = store
        /\ DOMAIN Last'["arg"] = {"id", "stock"}
        /\ Last'["arg"]["stock"] >= 0
        /\ Last'["arg"]["id"] = Last["outcome"]["val"]["id"])
       => PrizeOf(store', Last'["arg"]["id"])["stock"] = Last'["arg"]["stock"]]_vars

\* C7: a successful decrementStock returns the resulting stock to its caller:
\* max(0, stock - 1) for the stock the prize held before the call.
C7_DecrementReturnsStock ==
    (log # <<>> /\ Last["op"] = "decrementStock" /\ Last["status"] = "ok")
    => Last["outcome"] = Value(Max(0, Prior(Last)["stock"] - 1))

\* C8: a successful decrementStock, called alone on a prize with stock
\* s >= 0, leaves the store as it was but for that prize's stock, which is
\* s - 1 when s is positive and 0 when s is 0: never negative; totalStock and
\* every other field are unchanged. (n calls in sequence so leave max(0, s - n).)
C8_DecrementByOne ==
    (Alone /\ Last["op"] = "decrementStock" /\ Last["status"] = "ok"
       /\ Prior(Last)["stock"] >= 0)
    => LET i == FindIndex(Last["before"], Last["arg"])
           s == Prior(Last)["stock"]
       IN  /\ store = [Last["before"] EXCEPT
                          ![i] = [@ EXCEPT !["stock"] = IF s > 0 THEN s - 1 ELSE 0]]
           /\ store[i]["stock"] >= 0

C8_Witness ==
    /\ Alone /\ Last["op"] = "decrementStock" /\ Last["status"] = "ok"
    /\ Prior(Last)["stock"] = 1
    /\ PrizeOf(store, Last["arg"])["stock"] = 0
    /\ PrizeOf(store, Last["arg"])["totalStock"] = 1

\* C9: updatePrize, deletePrize and decrementStock called with an id that no
\* record of the store carries throw the not-found error before they change
\* anything: the store and the local key are as they were when the operation
\* was called, and no backend request was made.
C9_NotFoundBeforeMutation ==
    (Alone /\ Last["op"] \in {"updatePrize", "deletePrize", "decrementStock"}
       /\ ~Holds(Last["before"], ArgId(Last)))
    => /\ Last["status"] = "throw"
       /\ Last["outcome"] = NotFoundError
       /\ Last["fetch"] = NoFetch
       /\ store = Last["before"]
       /\ local = Last["localBefore"]

C9_Witness ==
    /\ Alone /\ Last["op"] = "deletePrize"
    /\ Last["outcome"] = NotFoundError
    /\ Last["arg"] = NoSuchId
    /\ store # <<>>

\* two remote operations overlapped and both have resolved; log[2] resolved last
BothResolved == calls = {} /\ Len(log) = 2 /\ Remote(log[1]) /\ Remote(log[2])
\* while both are in flight the store holds the second one's collection, which
\* was computed from the first one's
BothVisible ==
    Cardinality(calls) = 2
    => \E a \in calls, b \in calls :
          a["n"] = 1 /\ b["n"] = 2 /\ b["S0"] = a["S1"] /\ store = b["S1"]
\* the one of the two completions that was called second
Second == IF log[1]["n"] = 2 THEN log[1] ELSE log[2]

\* C10 as stated: once both have resolved, the store is what the operation that
\* resolved last determines, its S1 if it succeeded and its S0 if it failed.
C10_LastResolvedDecides ==
    /\ BothVisible
    /\ BothResolved
       => store = (IF log[2]["status"] = "ok" THEN log[2]["set"] ELSE log[2]["before"])

\* C10 amended: once both have resolved, the store is what was written to it
\* last: the S0 of the operation whose rollback ran last when one of the two
\* failed, and the S1 of the operation that was called second when both
\* succeeded (a confirmed operation writes nothing when it resolves).
C10_LastWriteDecides ==
    /\ BothVisible
    /\ BothResolved
       => store = (IF log[2]["status"] = "throw" THEN log[2]["before"]
                   ELSE IF log[1]["status"] = "throw" THEN log[1]["before"]
                   ELSE Second["set"])

C10_Witness ==
    /\ BothResolved
    /\ log[1]["n"] = 1 /\ log[1]["status"] = "throw"
    /\ log[2]["n"] = 2 /\ log[2]["status"] = "ok"
    /\ store = log[1]["before"]
    /\ store # log[2]["set"]

\* the positions of the store's prizes that have stock left
InStock(prizes) == {i \in 1..Len(prizes) : prizes[i]["stock"] > 0}

\* C11: a drawPrize returns null exactly when no record of the store has
\* stock > 0; otherwise it returns a record that is in the store and has
\* stock > 0 (so the one such record when there is exactly one); a record with
\* stock 0 is never returned.
C11_DrawsFromStock ==
    (log # <<>> /\ Last["op"] = "drawPrize")
    => /\ Last["status"] = "ok"
       /\ (Last["outcome"] = Null) <=> (InStock(Last["before"]) = {})
       /\ Last["outcome"] # Null
          => \E i \in InStock(Last["before"]) : Last["outcome"] = Value(Last["before"][i])

\* two records have stock left and the draw returned the second
C11_Witness ==
    /\ log # <<>> /\ Last["op"] = "drawPrize"
    /\ InStock(store) = {1, 2}
    /\ Last["outcome"] = Value(store[2])

\* C12: a drawPrize changes nothing: the store, the local key and the sheet
\* are as before it, and no call to the backend is started, also while the
\* confirm call of another operation is in flight.
C12_DrawChangesNothing ==
    [][(log' # log /\ log' # <<>> /\ Last'["op"] = "drawPrize")
       => /\ store' = store
          /\ local' = local
          /\ sheet' = sheet
          /\ calls' = calls]_vars

\* a prize was drawn while a confirm call was in flight, and is still in the
\* store with the stock it had
C12_Witness ==
    /\ calls # {} /\ log # <<>> /\ Last["op"] = "drawPrize"
    /\ Last["outcome"] # Null
    /\ \E i \in InStock(store) : Last["outcome"] = Value(store[i])

\* the read of the collection came to nothing: the fetch rejected, the status
\* was not ok, the body was not JSON or carried an error
ReadFailed(fetch) ==
    \/ fetch["kind"] # "response"
    \/ ~fetch["ok"]
    \/ "error" \in DOMAIN fetch["body"]

\* the prizes a read that did not fail returned
Returned0(fetch) == Get(fetch["body"], "prizes", <<>>)

\* a remote loadPrizes was the last operation to complete
RemoteLoadDone ==
    calls = {} /\ log # <<>> /\ Last["op"] = "loadPrizes" /\ Remote(Last)

\* C13 as stated: a remote loadPrizes whose read failed leaves the store empty
\* and throws; one whose read succeeded leaves in the store exactly the
\* records the backend returned, in the backend's order.
C13_LoadMirrorsBackend ==
    RemoteLoadDone
    => IF ReadFailed(Last["fetch"])
       THEN store = <<>> /\ Last["status"] = "throw"
       ELSE Last["status"] = "ok" /\ store = Returned0(Last["fetch"])

\* C13 amended: a remote loadPrizes whose read failed leaves the store empty,
\* whatever it held, and throws the adapter's error; one whose read succeeded
\* leaves in the store the records the backend returned, in the backend's
\* order, each with its stock lowered to its totalStock when it was greater.
C13_LoadClampsBackend ==
    RemoteLoadDone
    => IF ReadFailed(Last["fetch"])
       THEN /\ store = <<>>
            /\ Last["status"] = "throw"
            /\ Last["outcome"]["name"] = "GoogleSheetsError"
       ELSE /\ Last["status"] = "ok"
            /\ Len(store) = Len(Returned0(Last["fetch"]))
            /\ \A i \in 1..Len(store) :
                 LET r == Returned0(Last["fetch"])[i]
                 IN  store[i] = [r EXCEPT !["stock"] = IF @ > r["totalStock"]
                                                       THEN r["totalStock"] ELSE @]

\* the backend returned a record with more stock than totalStock, and the
\* store holds it clamped
C13_Witness ==
    /\ RemoteLoadDone /\ ~ReadFailed(Last["fetch"])
    /\ Len(store) = 2
    /\ Returned0(Last["fetch"])[1]["stock"] > Returned0(Last["fetch"])[1]["totalStock"]
    /\ store[1]["stock"] = Returned0(Last["fetch"])[1]["totalStock"]

\* a local loadPrizes was the last operation to complete
LocalLoadDone ==
    /\ ~isGoogleSheetsEnabled
    /\ calls = {} /\ log # <<>> /\ Last["op"] = "loadPrizes"

\* C14: in local mode loadPrizes never throws, and with the local key absent
\* or holding content that does not parse it leaves the store empty.
C14_LocalLoadNeverThrows ==
    LocalLoadDone
    => /\ Last["status"] = "ok"
       /\ Last["localBefore"] \in {Absent, Corrupt} => store = <<>>

C14_Witness ==
    /\ LocalLoadDone
    /\ Last["localBefore"] = Corrupt
    /\ Last["status"] = "ok"
    /\ store = <<>>

\* C15: in local mode, after loadPrizes the store's collection equals the
\* collection held under the local key, field for field, also for stored
\* records without totalStock and order.
C15_LoadKeepsStoredRecords ==
    (LocalLoadDone /\ Last["localBefore"]["kind"] = "json")
    => store = Last["localBefore"]["prizes"]

\* C16: in local mode, after a successful addPrize, updatePrize, deletePrize
\* or decrementStock the local key holds the store's collection, and what
\* loadPrizes would make of it is the store's collection again.
C16_LocalKeyMirrorsStore ==
    (~isGoogleSheetsEnabled /\ log # <<>> /\ Last["op"] \in MutatingOps
       /\ Last["status"] = "ok")
    => /\ local = Stored(store)
       /\ \A now \in Times : LoadLocal(local, now) = store

\* an initialize was the last operation to complete; the collection its
\* loadPrizes put in the store, and whether its loadPrizes threw
InitializeDone == calls = {} /\ log # <<>> /\ Last["op"] = "initialize"
LoadThrew(done) == Remote(done) /\ ReadFailed(done["fetch"])
LoadedBy(done) ==
    IF Remote(done)
    THEN LoadedPrizes(Returned0(done["fetch"]), CHOOSE now \in Times : TRUE)
    ELSE LoadLocal(done["localBefore"], CHOOSE now \in Times : TRUE)

\* a record the integrity check rejects
Rejected(prize) ==
    \/ "id" \notin DOMAIN prize \/ prize["id"] = ""
    \/ "name" \notin DOMAIN prize \/ prize["name"] = ""
    \/ "imageUrl" \notin DOMAIN prize
    \/ "stock" \notin DOMAIN prize \/ prize["stock"] < 0
    \/ "createdAt" \notin DOMAIN prize

\* C17: after an initialize whose load succeeded, if a loaded record fails the
\* integrity check (among them: a record with stock -1) the store is empty and
\* the local key has been removed; otherwise the store holds the loaded
\* collection.
C17_IntegrityFailureClears ==
    (InitializeDone /\ ~LoadThrew(Last))
    => IF \E i \in 1..Len(LoadedBy(Last)) : Rejected(LoadedBy(Last)[i])
       THEN store = <<>> /\ local = Absent
       ELSE store = LoadedBy(Last) /\ local = Last["localBefore"]

\* a stored collection with a record of stock -1 was loaded and cleared
C17_Witness ==
    /\ InitializeDone /\ ~Remote(Last)
    /\ Last["localBefore"]["kind"] = "json"
    /\ Len(Last["localBefore"]["prizes"]) = 2
    /\ Last["localBefore"]["prizes"][2]["stock"] = 0 - 1
    /\ Last["localBefore"]["prizes"][1]["stock"] = 1
    /\ store = <<>> /\ local = Absent

\* C18: initialize never throws. When its loadPrizes threw, the store is empty
\* afterwards and the error store holds an error with title, message and
\* details; when it did not, initialize leaves the error store as it was (also
\* when the integrity check fails).
C18_InitializeReportsLoadErrors ==
    [][(log' # log /\ log' # <<>> /\ Last'["op"] = "initialize")
       => /\ Last'["status"] = "ok"
          /\ IF LoadThrew(Last')
             THEN /\ store' = <<>>
                  /\ currentError' # Null
                  /\ {"title", "message", "details"} \subseteq DOMAIN currentError'
             ELSE currentError' = currentError]_vars

C18_Witness ==
    /\ InitializeDone /\ Remote(Last)
    /\ Last["fetch"]["kind"] = "exception"
    /\ Last["before"] # <<>>
    /\ store = <<>>
    /\ currentError # Null
    /\ currentError["message"] = "network or CORS problem"

\* the category the taxonomy gives a transport status
CategoryOf(status) ==
    CASE status = 401 -> "unauthorized"
      [] status = 403 -> "forbidden"
      [] status = 404 -> "not_found"
      [] status = 429 -> "rate_limit"
      [] status >= 500 -> "server"
      [] OTHER -> "unknown"

\* C19: when the response to a remote adapter call (the read of the
\* collection, add, update, delete, decrement) has a status that is not ok,
\* the call throws an error that carries that status and the category derived
\* from it.
C19_StatusErrorsCategorized ==
    (log # <<>> /\ Remote(Last) /\ Last["op"] \in MutatingOps \cup {"loadPrizes"}
       /\ Last["fetch"]["kind"] = "response" /\ ~Last["fetch"]["ok"])
    => /\ Last["status"] = "throw"
       /\ "status" \in DOMAIN Last["outcome"]
       /\ Last["outcome"]["status"] = Last["fetch"]["status"]
       /\ "category" \in DOMAIN Last["outcome"]
       /\ Last["outcome"]["category"] = CategoryOf(Last["fetch"]["status"])

\* C20: when the response to a remote adapter call has an ok status and a
\* body with an error field, the call throws an error of category 'script'.
C20_ScriptErrorsCategorized ==
    (log # <<>> /\ Remote(Last) /\ Last["op"] \in MutatingOps \cup {"loadPrizes"}
       /\ Last["fetch"]["kind"] = "response" /\ Last["fetch"]["ok"]
       /\ "error" \in DOMAIN Last["fetch"]["body"])
    => /\ Last["status"] = "throw"
       /\ "category" \in DOMAIN Last["outcome"]
       /\ Last["outcome"]["category"] = "script"

\* the response has an ok status and no error field, and lacks the success
\* flag or the payload of the operation
PayloadMissing(op, fetch) ==
    /\ fetch["kind"] = "response" /\ fetch["ok"]
    /\ "error" \notin DOMAIN fetch["body"]
    /\ \/ "success" \notin DOMAIN fetch["body"]
       \/ op = "addPrize" /\ "prize" \notin DOMAIN fetch["body"]
       \/ op = "decrementStock" /\ "newStock" \notin DOMAIN fetch["body"]

\* C21: in remote mode, when the response to the confirm call of an add,
\* update, delete or decrement has an ok status and no error field but lacks
\* the success flag (or the prize of an add, the newStock of a decrement), the
\* adapter throws and the operation, called alone, leaves the store holding
\* the snapshot it read when it was called.
C21_MissingPayloadRollsBack ==
    (Alone /\ Last["op"] \in MutatingOps /\ Remote(Last)
       /\ PayloadMissing(Last["op"], Last["fetch"]))
    => /\ Last["status"] = "throw"
       /\ Last["outcome"] \in {AdapterError(m) : m \in
              {"failed to add the prize to the spreadsheet",
               "failed to update the prize in the spreadsheet",
               "failed to delete the prize from the spreadsheet",
               "failed to decrement the stock in the spreadsheet"}}
       /\ store = Last["before"]

\* a decrement was answered with the success flag alone and was rolled back
C21_Witness ==
    /\ Alone /\ Last["op"] = "decrementStock" /\ Remote(Last)
    /\ Last["fetch"]["kind"] = "response" /\ Last["fetch"]["ok"]
    /\ DOMAIN Last["fetch"]["body"] = {"success"}
    /\ Last["status"] = "throw"
    /\ PrizeOf(store, Last["arg"])["stock"] = 1

\* C22: toGoogleSheetsErrorCategory gives every status a category: 401
\* unauthorized, 403 forbidden, 404 not_found, 429 rate_limit, 500 and above
\* server, every other status and the absent status unknown. The error of a
\* remote loadPrizes whose response was not ok carries that category, and the
\* error of one whose fetch rejected carries the category network.
C22_CategoryTotal ==
    /\ \A status \in 0..599 :
         toGoogleSheetsErrorCategory(status) =
            (CASE status = 401 -> "unauthorized"
               [] status = 403 -> "forbidden"
               [] status = 404 -> "not_found"
               [] status = 429 -> "rate_limit"
               [] status >= 500 -> "server"
               [] OTHER -> "unknown")
    /\ (RemoteLoadDone /\ Last["fetch"]["kind"] = "response" /\ ~Last["fetch"]["ok"])
       => /\ Last["status"] = "throw"
          /\ Last["outcome"]["category"] = CategoryOf(Last["fetch"]["status"])
    /\ (RemoteLoadDone /\ Last["fetch"]["kind"] = "exception")
       => /\ Last["status"] = "throw"
          /\ Last["outcome"]["category"] = "network"

\* a read of the collection was answered 429 and threw a rate_limit error
C22_Witness ==
    /\ RemoteLoadDone /\ Last["fetch"]["kind"] = "response"
    /\ Last["fetch"]["status"] = 429
    /\ Last["outcome"]["category"] = "rate_limit"

\* C23: an operation goes to the backend only when the flag selects it and
\* the endpoint URL is not empty. With an empty URL, whatever the flag says,
\* no call to the backend is ever in flight, the sheet is never written, and
\* every operation takes the local path: a mutation that finds its prize
\* writes the store's collection to the local key, loadPrizes reads the local
\* key, and nothing but the not-found error is thrown.
C23_RemoteNeedsUrl ==
    /\ (calls # {} \/ (log # <<>> /\ Remote(Last)))
       => (dataSource = "sheets" /\ apiUrl # "")
    /\ apiUrl = ""
       => /\ calls = {} /\ sheet = <<>>
          /\ log # <<>>
             => /\ ~Remote(Last)
                /\ Last["status"] = "throw" => Last["outcome"] = NotFoundError
                /\ (Last["op"] \in MutatingOps /\ Last["status"] = "ok")
                   => \E now \in Times : local = savePrizes(store, now)
                /\ Last["op"] = "loadPrizes"
                   => \E now \in Times : store = LoadLocal(Last["localBefore"], now)

\* the flag selects the backend, the URL is empty, and an addPrize was saved
\* under the local key
C23_Witness ==
    /\ dataSource = "sheets" /\ apiUrl = ""
    /\ log # <<>> /\ Last["op"] = "addPrize" /\ Last["status"] = "ok"
    /\ ~Remote(Last)
    /\ store # <<>>
    /\ local = Stored(store)

\* C24: a successful addPrize whose request has no totalStock writes a prize
\* whose totalStock is the request's stock, and returns it.
C24_TotalStockDefaultsToStock ==
    (log # <<>> /\ Last["op"] = "addPrize" /\ Last["status"] = "ok"
       /\ "totalStock" \notin DOMAIN Last["arg"])
    => /\ Last["outcome"]["val"]["totalStock"] = Last["arg"]["stock"]
       /\ Written(Last)["totalStock"] = Last["arg"]["stock"]
       /\ Alone => Holds(store, Last["outcome"]["val"]["id"])
                   /\ PrizeOf(store, Last["outcome"]["val"]["id"])["totalStock"]
                        = Last["arg"]["stock"]

C24_Witness ==
    /\ Alone /\ Last["op"] = "addPrize" /\ Last["status"] = "ok"
    /\ DOMAIN Last["arg"] = {"name", "imageUrl", "stock"}
    /\ Last["arg"]["stock"] = 1
    /\ store[Len(store)]["totalStock"] = 1
    /\ store[Len(store)]["stock"] = 1

\* the ids of a collection, and the ids nanoid() handed out before the last one
IdsOf(prizes) == {prizes[i]["id"] : i \in 1..Len(prizes)}
HandedOutBefore == {IdNames[k] : k \in 1..(nextId - 1)}

\* C25: with operations issued one at a time from an empty store, confirms
\* failing and rolling back among them, the ids of the store's records are
\* pairwise distinct, and the id a successful addPrize returns is neither in
\* the collection it was called on nor among the ids handed out before.
C25_IdsDistinct ==
    /\ \A i, j \in 1..Len(store) : i # j => store[i]["id"] # store[j]["id"]
    /\ (log # <<>> /\ Last["op"] = "addPrize" /\ Last["status"] = "ok")
       => /\ Last["outcome"]["val"]["id"] \notin IdsOf(Last["before"])
          /\ Last["outcome"]["val"]["id"] \notin HandedOutBefore

\* a confirmed addPrize has put a second prize in the store
C25_Witness ==
    /\ Alone /\ Last["op"] = "addPrize" /\ Last["status"] = "ok" /\ Remote(Last)
    /\ Len(store) = 2
    /\ store[2]["id"] = Last["outcome"]["val"]["id"]
    /\ store[1]["id"] # store[2]["id"]

\* a successful updatePrize, called alone, has completed
UpdateDone == Alone /\ Last["op"] = "updatePrize" /\ Last["status"] = "ok"

\* C26 as stated: a successful updatePrize leaves the store as it was but for
\* the record with the requested id, which keeps its position, its id and
\* createdAt, and the prior value of every field the request does not carry.
C26_UpdateKeepsAbsentFields ==
    UpdateDone
    => /\ Len(store) = Len(Last["before"])
       /\ \A i \in 1..Len(store) :
            LET old == Last["before"][i]
            IN  IF old["id"] = Last["arg"]["id"]
                THEN /\ store[i]["id"] = old["id"]
                     /\ store[i]["createdAt"] = old["createdAt"]
                     /\ \A k \in DOMAIN old \ DOMAIN Last["arg"] :
                          k \in DOMAIN store[i] /\ store[i][k] = old[k]
                ELSE store[i] = old

\* C26 amended: as stated, except for stock: when the request carries no
\* stock, the record's stock is its prior stock lowered to the record's new
\* totalStock when that is smaller.
C26_UpdateKeepsAbsentFieldsButStock ==
    UpdateDone
    => /\ Len(store) = Len(Last["before"])
       /\ \A i \in 1..Len(store) :
            LET old == Last["before"][i]
            IN  IF old["id"] = Last["arg"]["id"]
                THEN /\ store[i]["id"] = old["id"]
                     /\ store[i]["createdAt"] = old["createdAt"]
                     /\ \A k \in DOMAIN old \ (DOMAIN Last["arg"] \cup {"stock"}) :
                          k \in DOMAIN store[i] /\ store[i][k] = old[k]
                     /\ "stock" \notin DOMAIN Last["arg"]
                        => store[i]["stock"] = Min(old["stock"], store[i]["totalStock"])
                ELSE store[i] = old

\* the first of two prizes had its totalStock set below its stock; its stock
\* followed, the second prize is as it was
C26_Witness ==
    /\ UpdateDone /\ Len(store) = 2
    /\ DOMAIN Last["arg"] = {"id", "totalStock"}
    /\ Last["arg"]["id"] = store[1]["id"]
    /\ Last["before"][1]["stock"] = 1 /\ store[1]["stock"] = 0
    /\ store[2] = Last["before"][2]

\* C27: a successful deletePrize, called alone, leaves the store as it was
\* but for the record with the requested id, which is gone: the records
\* before it and after it are unchanged and in the same order.
C27_DeleteRemovesOne ==
    (Alone /\ Last["op"] = "deletePrize" /\ Last["status"] = "ok")
    => \E i \in 1..Len(Last["before"]) :
          /\ Last["before"][i]["id"] = Last["arg"]
          /\ store = SubSeq(Last["before"], 1, i - 1)
                      \o SubSeq(Last["before"], i + 1, Len(Last["before"]))
          /\ ~Holds(store, Last["arg"])

\* the second of two prizes was deleted and the first is left
C27_Witness ==
    /\ Alone /\ Last["op"] = "deletePrize" /\ Last["status"] = "ok"
    /\ Len(Last["before"]) = 2
    /\ Last["before"][2]["id"] = Last["arg"]
    /\ store = <<Last["before"][1]>>

\* C28: a successful addPrize, called alone, leaves the store holding the
\* collection it was called on with one record appended, and returns that
\* record.
C28_AddAppends ==
    (Alone /\ Last["op"] = "addPrize" /\ Last["status"] = "ok")
    => /\ Len(store) = Len(Last["before"]) + 1
       /\ SubSeq(store, 1, Len(Last["before"])) = Last["before"]
       /\ Last["outcome"] = Value(store[Len(store)])

\* a prize was added after another
C28_Witness ==
    /\ Alone /\ Last["op"] = "addPrize" /\ Last["status"] = "ok"
    /\ Len(Last["before"]) = 1
    /\ store = Append(Last["before"], Last["outcome"]["val"])
    /\ store[1]["id"] # store[2]["id"]

\* records as the store may hold them without an order
Unordered ==
    {[id |-> IdNames[1], name |-> "A", imageUrl |-> "/a.png", stock |-> st,
      totalStock |-> MaxStock, createdAt |-> 500] : st \in 0..MaxStock}

\* C29: the prize a successful addPrize without an order wrote has order 1
\* when the collection was empty and otherwise one more than the greatest
\* order in it, so greater than every order in it; the prize a successful
\* updatePrize without an order wrote has the order it had; and updatePrize
\* gives a record without an order its 1-indexed position.
C29_OrderAssigned ==
    /\ (log # <<>> /\ Last["op"] = "addPrize" /\ Last["status"] = "ok"
          /\ "order" \notin DOMAIN Last["arg"])
       => LET orders == {Last["before"][i]["order"] : i \in 1..Len(Last["before"])}
          IN  /\ orders = {} => Written(Last)["order"] = 1
              /\ orders # {} => Written(Last)["order"] = SetMax(orders) + 1
              /\ \A o \in orders : o < Written(Last)["order"]
    /\ (log # <<>> /\ Last["op"] = "updatePrize" /\ Last["status"] = "ok"
          /\ "order" \notin DOMAIN Last["arg"])
       => Written(Last)["order"] = Prior(Last)["order"]
    /\ \A target \in Unordered, targetIndex \in 1..3, request \in SeqUpdates, now \in Times :
          UpdatedPrize(target, targetIndex, request, now)["order"] = targetIndex

\* the second prize added has order 2
C29_Witness ==
    /\ Alone /\ Last["op"] = "addPrize" /\ Last["status"] = "ok"
    /\ Len(store) = 2
    /\ store[1]["order"] = 1 /\ store[2]["order"] = 2

\* the collection a suspended operation computed from the one it found
ComputedBy(c) ==
    LET S0 == c["S0"]
        i == FindIndex(S0, IF c["op"] = "updatePrize" THEN c["arg"]["id"] ELSE c["arg"])
    IN  CASE c["op"] = "addPrize" -> Append(S0, c["request"]["data"])
          [] c["op"] = "deletePrize" -> SubSeq(S0, 1, i - 1) \o SubSeq(S0, i + 1, Len(S0))
          [] c["op"] = "decrementStock" ->
                [S0 EXCEPT ![i] = [@ EXCEPT !["stock"] = IF @ > 0 THEN @ - 1 ELSE 0]]
          [] OTHER ->
                [S0 EXCEPT ![i] = [@ EXCEPT !["stock"] =
                                       Min(Get(c["arg"], "stock", @), S0[i]["totalStock"])]]

\* C30: in remote mode, while the confirm call of an addPrize, updatePrize,
\* deletePrize or decrementStock is in flight and no other of them has
\* started, the store holds the collection the operation computed, and every
\* drawPrize made meanwhile found that collection and drew from it.
C30_OptimisticVisible ==
    \A c \in calls :
       (calls = {c} /\ c["op"] \in MutatingOps
          /\ \A k \in 1..Len(log) : log[k]["op"] = "drawPrize")
       => /\ store = ComputedBy(c)
          /\ store # c["S0"] \/ (c["op"] \in {"updatePrize", "decrementStock"})
          /\ \A k \in 1..Len(log) :
               /\ log[k]["before"] = ComputedBy(c)
               /\ IF InStock(ComputedBy(c)) = {} THEN log[k]["outcome"] = Null
                  ELSE \E i \in InStock(ComputedBy(c)) :
                          log[k]["outcome"] = Value(ComputedBy(c)[i])

\* a decrement of the last unit is in flight and a draw found nothing
C30_Witness ==
    \E c \in calls :
       /\ calls = {c} /\ c["op"] = "decrementStock"
       /\ InStock(c["S0"]) # {}
       /\ log # <<>> /\ Last["op"] = "drawPrize"
       /\ Last["outcome"] = Null
       /\ InStock(store) = {}

\* what a step does to the calls in flight and to the sheet: a call that
\* starts is one more in flight, with the store written and the sheet left
\* alone; the sheet changes only as one call in flight settles, by what doPost
\* makes of its request; a call that settles with a throw leaves the sheet as
\* it is, restores its snapshot and starts no other call
OneRequestStep ==
    /\ \A c \in calls' \ calls :
         /\ calls' = calls \cup {c}
         /\ sheet' = sheet
         /\ store' = c["S1"]
    /\ sheet' # sheet
       => \E c \in calls :
             /\ calls' = calls \ {c}
             /\ sheet' = doPost(sheet, c["request"])["rows"]
             /\ Last'["n"] = c["n"] /\ Last'["status"] = "ok"
    /\ (log' # log /\ Len(log') > 0 /\ Remote(Last') /\ Last'["status"] = "throw")
       => /\ sheet' = sheet
          /\ store' = Last'["before"]
          /\ calls' \subseteq calls /\ calls' # calls

\* C31: a remote mutating operation makes one request: none before the
\* optimistic write of the store, one whose effect on the sheet is that of its
\* one request, none after a failed confirm (no retry, no compensating
\* write); and no operation settles twice or settles and stays in flight.
C31_OneRequestPerOperation ==
    /\ [][OneRequestStep]_vars
    /\ [](/\ \A c \in calls, k \in 1..Len(log) : log[k]["n"] # c["n"]
          /\ \A j, k \in 1..Len(log) : j # k => log[j]["n"] # log[k]["n"])

\* a confirm failed while another call was in flight, and that call is still
\* the only one in flight
C31_Witness ==
    /\ Cardinality(calls) = 1 /\ Len(log) = 1
    /\ Last["status"] = "throw" /\ Remote(Last)
    /\ store = Last["before"]
    /\ sheet # <<>>

\* C32: when every transport call resolves in the end, every addPrize,
\* updatePrize, deletePrize, decrementStock and loadPrizes that suspended at
\* its adapter call completes, with a result or an error. In local mode no
\* operation suspends. Until its call resolves a mutating operation stays in
\* flight with the store holding its optimistic collection: nothing but the
\* resolution of the call ends it.
C32_CompletesWhenResolved ==
    /\ [](~isGoogleSheetsEnabled => calls = {})
    /\ [](\A c \in calls : c["op"] \in MutatingOps => store = c["S1"])
    /\ [][\A c \in calls : c \notin calls'
             => /\ log' # <<>> /\ Last'["n"] = c["n"]
                /\ Remote(Last')]_vars
    /\ (calls # {}) ~> (calls = {} /\ log # <<>> /\ Last["status"] \in {"ok", "throw"})

\* a remote updatePrize has completed after its call resolved
C32_Witness ==
    /\ calls = {} /\ log # <<>> /\ Remote(Last)
    /\ Last["op"] = "updatePrize" /\ Last["status"] = "ok"
    /\ store = Last["set"]

\* the one of the two completions that was called first
First == IF log[1]["n"] = 1 THEN log[1] ELSE log[2]
Failed(done) == done["status"] = "throw"

\* The collections that prizes becomes by the change of a completed operation,
\* made to prizes instead of to the collection the operation found. The prize
\* of an addPrize that failed is on no record: it is any prize of the store
\* whose id prizes does not hold.
WithChange(done, prizes) ==
    LET i == FindIndex(prizes, ArgId(done))
    IN  CASE done["op"] = "addPrize" ->
                IF Failed(done)
                THEN {Append(prizes, store[k]) :
                        k \in {j \in 1..Len(store) : ~Holds(prizes, store[j]["id"])}}
                ELSE {Append(prizes, Written(done))}
          [] done["op"] = "deletePrize" -> {FilterOut(prizes, done["arg"])}
          [] done["op"] = "decrementStock" ->
                {IF i = 0 THEN prizes ELSE [prizes EXCEPT ![i] = DecrementedPrize(@)]}
          [] OTHER ->
                {IF i = 0 THEN prizes
                 ELSE [prizes EXCEPT ![i] = UpdatedPrize(@, i, done["arg"],
                                                         CHOOSE now \in Times : TRUE)]}

\* the collections one operation may leave of those in P: without its change
\* unless it must be there, with its change if it may be there
Through(done, P, may, must) ==
    UNION {(IF must THEN {} ELSE {prizes}) \cup (IF may THEN WithChange(done, prizes) ELSE {}) :
             prizes \in P}

\* the collections that hold no change of a failed operation: the collection
\* the first operation found, with changes of confirmed operations only
NoFailedChange ==
    Through(Second, Through(First, {First["before"]}, ~Failed(First), FALSE),
            ~Failed(Second), FALSE)
\* the collections that hold the change of every confirmed operation
EveryConfirmedChange ==
    Through(Second, Through(First, {First["before"]}, TRUE, ~Failed(First)),
            TRUE, ~Failed(Second))

\* C33 as stated: once two overlapping remote operations have resolved, the
\* store holds no change of an operation whose confirm failed.
C33_NoFailedChangeLeft ==
    BothResolved => store \in NoFailedChange

\* C33 amended: the store holds no change of an operation whose confirm
\* failed, unless both failed and the rollback of the one called second ran
\* last: then the store holds the snapshot of the second, with the change of
\* the first in it.
C33_NoFailedChangeButRestored ==
    BothResolved
    => \/ store \in NoFailedChange
       \/ /\ Failed(First) /\ Failed(Second) /\ log[2] = Second
          /\ store = Second["before"]
          /\ store \in WithChange(First, First["before"])

\* an addPrize failed, then a decrementStock of its prize failed: the prize
\* is in the store
C33_Witness ==
    /\ BothResolved
    /\ Failed(log[1]) /\ Failed(log[2])
    /\ log[1]["op"] = "addPrize" /\ log[2]["op"] = "decrementStock"
    /\ log[1]["before"] = <<>>
    /\ Len(store) = 1

\* C34 as stated: once two overlapping remote operations have resolved, the
\* store holds the change of every operation whose confirm succeeded.
C34_ConfirmedChangeKept ==
    BothResolved => store \in EveryConfirmedChange

\* C34 amended: the store holds the change of every operation whose confirm
\* succeeded, unless the one called first failed and the one called second
\* succeeded: then the store holds the snapshot of the first, without the
\* change of the second.
C34_ConfirmedChangeKeptButSecond ==
    BothResolved
    => \/ store \in EveryConfirmedChange
       \/ /\ Failed(First) /\ ~Failed(Second)
          /\ store = First["before"]

\* a deletePrize was confirmed and the decrementStock called before it
\* failed: the prize is in the store again
C34_Witness ==
    /\ BothResolved
    /\ First["op"] = "decrementStock" /\ Failed(First)
    /\ Second["op"] = "deletePrize" /\ ~Failed(Second)
    /\ Holds(store, Second["arg"])
    /\ ~Holds(sheet, Second["arg"])

\* C35: every record of the store has a totalStock and a stock that is not
\* greater than it, after any sequence of operations, successful or rolled
\* back.
C35_StockNeverAboveTotal ==
    \A i \in 1..Len(store) :
       /\ "totalStock" \in DOMAIN store[i]
       /\ store[i]["stock"] <= store[i]["totalStock"]

\* C36: for the store's prizes getStats gives availableCount +
\* outOfStockCount = totalCount, remainingStock the sum of the stocks, and
\* remainingStock <= totalStockCapacity.
C36_StatsAddUp ==
    LET stats == getStats(store)
    IN  /\ stats["availableCount"] + stats["outOfStockCount"] = stats["totalCount"]
        /\ stats["remainingStock"] = SumSeq([i \in 1..Len(store) |-> store[i]["stock"]])
        /\ stats["remainingStock"] <= stats["totalStockCapacity"]

\* the POST requests of the client that are well formed for the rows of the
\* sheet: an add of a prize the sheet does not hold, an update, a delete and a
\* decrement of one it holds, and the log of a result (the fields of the
\* entry play no part in the dispatch)
ClientRequests(rows) ==
    {[action |-> "add",
      data |-> NewPrize(request, IdNames[Len(IdNames)], now, <<>>)] :
        request \in PairAdds, now \in Times}
    \cup {[action |-> "update", data |-> [id |-> rows[i]["id"], stock |-> 0]] :
            i \in 1..Len(rows)}
    \cup {[action |-> "delete", id |-> rows[i]["id"]] : i \in 1..Len(rows)}
    \cup {[action |-> "decrement", id |-> rows[i]["id"]] : i \in 1..Len(rows)}
    \cup {[action |-> "logResult", data |-> Empty]}

\* C39: doPost answers every well-formed request of the client, whatever its
\* action (add, update, delete, decrement, logResult), with success and
\* without an error.
C39_EveryActionDispatched ==
    \A request \in ClientRequests(sheet) :
       LET body == doPost(sheet, request)["body"]
       IN  /\ "error" \notin DOMAIN body
           /\ Get(body, "success", FALSE)

\* prizes without a totalStock, and with one that is not positive
Undenominated ==
    {[id |-> IdNames[1], name |-> "A", imageUrl |-> "/a.png", stock |-> st, createdAt |-> 500] :
        st \in (0 - 1)..(MaxStock + 10)}
    \cup {[id |-> IdNames[1], name |-> "A", imageUrl |-> "/a.png", stock |-> st,
           totalStock |-> ts, createdAt |-> 500] :
            st \in (0 - 1)..MaxStock, ts \in (0 - 1)..(10 * MaxStock + 1)}

\* the flag as the claim puts it
LowByTenth(prize) ==
    /\ prize["stock"] > 0
    /\ 10 * prize["stock"] <= Get(prize, "totalStock", prize["stock"])

\* C37: getPrizeDisplayInfo returns the store's record and marks it low in
\* stock exactly when its stock is greater than 0 and ten times its stock is
\* at most its totalStock (its stock, when it has no totalStock), in every
\* state of the store, so after every decrementStock; a prize with stock 0
\* and one whose denominator is its positive stock are never marked.
C37_LowStockByTenth ==
    /\ \A i \in 1..Len(store) :
         LET info == getPrizeDisplayInfo(store, store[i]["id"])
         IN  /\ ~info["threw"]
             /\ info["value"]["prize"] = store[i]
             /\ info["value"]["isLowStock"] <=> LowByTenth(store[i])
    /\ \A prize \in Undenominated :
         LET info == getPrizeDisplayInfo(<<prize>>, prize["id"])["value"]
         IN  /\ info["isLowStock"] <=> LowByTenth(prize)
             /\ prize["stock"] = 0 => ~info["isLowStock"]
             /\ Get(prize, "totalStock", prize["stock"]) = prize["stock"]
                => ~info["isLowStock"]

\* a decrementStock took a prize from above a tenth of its totalStock to a
\* tenth, and the prize is marked
C37_Witness ==
    /\ Alone /\ Last["op"] = "decrementStock" /\ Last["status"] = "ok"
    /\ ~LowByTenth(Prior(Last))
    /\ PrizeOf(store, Last["arg"])["totalStock"] = 10 * PrizeOf(store, Last["arg"])["stock"]
    /\ getPrizeDisplayInfo(store, Last["arg"])["value"]["isLowStock"]

\* C38: no operation takes the remote branch without an adapter: none ends
\* with the error of a call on the null sheetsService, also when the data
\* source was switched after the service was constructed.
C38_RemoteBranchHasAdapter ==
    /\ \A k \in 1..Len(log) : log[k]["outcome"] # NullAdapterError
    /\ calls # {} => sheetsService

====
